---- MODULE Spec2Model ----
(***************************************************************************)
(* A model of the interactive menu subsystem of the OpenAstroTracker       *)
(* firmware: the keypad debouncer (KeypadDevice), the menu model and the   *)
(* menu renderer with its differential writer (FullLcdMenu) and the        *)
(* character display they drive (DisplayDevice).                           *)
(*                                                                         *)
(* Characters are their ASCII codes, strings are sequences of characters.  *)
(* byte is an integer modulo 256.  The millisecond clock, a uint32_t in    *)
(* the firmware, wraps modulo 2^30 here: TLC's integers are 32 bits wide,   *)
(* and unsigned subtraction behaves alike for every power of two.          *)
(***************************************************************************)
EXTENDS Integers, Sequences, FiniteSets, TLC

\* ------------------------------------------------------------------------
\* Bounds of the model

\* milliseconds of clock time explored
MaxTime == 13
\* the largest number of milliseconds that pass between two operations
MaxStep == 6
\* the capacity the menu is constructed with
MaxItems == 2
\* the capacity of the menu the renderer is explored with
MaxRenderItems == 3
\* the capacity of the long menu the renderer is explored with
MaxLongItems == 25
\* the largest character code printed
MaxChar == 127
\* the largest sample of the analog pin of the keypad shield
MaxAnalog == 1023
\* the largest value read from the buttons of the port expander
MaxButtons == 31
\* the largest number of items of the menus rendered on other widths
MaxGeometryItems == 2
\* how many milliseconds before the wrap of millis() the keypad is first used
WrapLead == 7
\* microseconds of clock time explored
MaxMicros == 6
\* the largest number of microseconds that pass between two operations
MaxMicrosStep == 2
\* how deep suspend() calls are nested
MaxNesting == 2

\* ------------------------------------------------------------------------
\* KeypadState (KeypadDevice.hpp)

btnNONE == 0
btnRIGHT == 1
btnUP == 2
btnDOWN == 3
btnLEFT == 4
btnSELECT == 5

KeypadState == {btnNONE, btnRIGHT, btnUP, btnDOWN, btnLEFT, btnSELECT}

DEBOUNCE_PERIOD == 5

Byte(n) == n % 256

\* DisplayDevice geometry (HD44780DisplayDevice)
NUM_ROWS == 2
NUM_COLUMNS == 16

\* the characters ' ', '>' and '<'
SP == 32
GT == 62
LT == 60

\* HD44780DisplayDevice::SpecialSymbols
SYMBOL_DEGREES == 0
SYMBOL_MINUTES == 1
SYMBOL_LEFT_ARROW == 2
SYMBOL_RIGHT_ARROW == 3
SYMBOL_UP_ARROW == 4
SYMBOL_DOWN_ARROW == 5
SYMBOL_NO_TRACKING == 6
SYMBOL_TRACKING == 7

U32(n) == n % (2^30)

VARIABLES
  \* KeypadDevice
  _currentKey,      \* most recent raw keypad state
  _analogKeyValue,  \* most recent raw analog state
  _lastKeyChange,   \* millis() of the most recent raw change
  _lastKey,         \* raw key of the most recent raw change
  _newKey,          \* the debounced (committed) key
  _lastNewKey,      \* the key last reported by keyChanged
  now,              \* what millis() returns
  pNewKey,          \* the caller's byte that keyChanged writes through pNewKey
  \* what the last keypad operation was and what it returned
  kop,              \* "none", "tick", "currentKey", "currentState",
                    \* "currentAnalogState", "keyChanged"
  kret,             \* the value returned by currentKey/currentState/currentAnalogState
  kchg,             \* the value returned by keyChanged
  \* history of the keypad polls
  sinceRun,         \* ms since the poll that first read the current raw key (saturating)
  lastKC,           \* result of the most recent keyChanged call: "none", "true", "false"
  otherPoll,        \* another operation polled since the most recent keyChanged call
  commitSinceTrue,  \* the committed key changed since keyChanged last returned true
  onlyKC,           \* every poll so far was made by keyChanged
  other,            \* a second KeypadDevice given the same raw reads at the same
                    \* times: its fields, its last operation and what it returned
  \* FullLcdMenu
  _maxItems,        \* the capacity the menu was constructed with
  _menuItems,       \* the items added, each [display, id], in insertion order
  _numMenuItems,
  _activeMenuIndex,
  _longestDisplay,
  _activeRow,       \* the row of the menu's logical cursor
  _activeCol,       \* the column of the menu's logical cursor
  _lastDisplay,     \* row -> the string last printed by printMenu on the row
  _display,         \* the display: [rows, col, row, calls]; rows is what the
                    \* hardware shows, (col, row) its cursor, calls the backend
                    \* calls made by the last menu operation
  ub,               \* "none", or the undefined behaviour the program ran into
  \* what the last menu operation was, its arguments and what it returned
  mop, argLine, argId, mret,
  \* history of the menu operations
  lastPrinted,      \* row -> the line of the last printMenu call made on the row
  runLen,           \* number of setNextActive calls made in a row (saturating)
  runStart,         \* the active index when that run began
  \* a call to a display or keypad backend: the function called, what was
  \* passed to it or read by it, and what it wrote or returned
  fn, fin, fout,
  \* the backlight brightness of FullLcdMenu and its non-volatile storage
  _brightness,      \* byte _brightness
  eeprom,           \* the brightness byte held by the non-volatile storage
  eepromLog,        \* the accesses to the storage made by the last operation
  contrast,         \* what setContrast was last called with (-1: not called)
  bop,              \* the last brightness operation
  barg,             \* [level, persist] of the last setBacklightBrightness call
  bret,             \* what getBacklightBrightness returned
  lastLevel,        \* the level of the most recent call that set one (-1: none)
  lastPersisted,    \* the level of the most recent persist = true call, or
                    \* what the storage held at construction
  \* GyroMPU6050
  _isPresent,
  wire,             \* the I2C transactions of the last operation
  gop,              \* the last gyro operation
  \* RealTime
  micros,           \* what micros() returns
  _pausedTime,
  _suspendStart,
  _suspended,
  rop,              \* the last RealTime operation
  rret,             \* what currentTime() returned last (-1: not called)
  rprev,            \* what the currentTime() call before that returned (-1: none)
  atSuspend,        \* micros() - _pausedTime at the outermost suspend()
  gret              \* what the operations returned last: [pitchAngle, rollAngle]
                    \* in hundredths of a degree, temperature in hundredths
                    \* of a degree C, isPresent

keypadVars == <<_currentKey, _analogKeyValue, _lastKeyChange, _lastKey, _newKey,
                _lastNewKey, now, pNewKey, kop, kret, kchg, sinceRun, lastKC,
                otherPoll, commitSinceTrue, onlyKC, other>>

menuVars == <<_maxItems, _menuItems, _numMenuItems, _activeMenuIndex, _longestDisplay,
              _activeRow, _activeCol, _lastDisplay, _display, ub, mop, argLine,
              argId, mret, lastPrinted, runLen, runStart>>

backendVars == <<fn, fin, fout>>

storeVars == <<_brightness, eeprom, eepromLog, contrast, bop, barg, bret,
               lastLevel, lastPersisted>>

gyroVars == <<_isPresent, wire, gop, gret>>

realtimeVars == <<micros, _pausedTime, _suspendStart, _suspended, rop, rret,
                  rprev, atSuspend>>

vars == <<keypadVars, menuVars, backendVars, storeVars, gyroVars, realtimeVars>>

\* ------------------------------------------------------------------------
\* The keypad backend: the resistor ladder of the LCD keypad shield

\* analog samples the hardware is read at, one or two in each band
AnalogSamples == {0, 700, 1023}

\* mutant: each threshold belongs to the band below it
LcdKeypadShield_readKeypadState_Inclusive(analogValue) ==
  IF analogValue > 1000 THEN btnNONE
  ELSE IF analogValue <= 50 THEN btnRIGHT
  ELSE IF analogValue <= 240 THEN btnUP
  ELSE IF analogValue <= 400 THEN btnDOWN
  ELSE IF analogValue <= 600 THEN btnLEFT
  ELSE IF analogValue <= 920 THEN btnSELECT
  ELSE btnNONE

LcdKeypadShield_readKeypadState(analogValue) ==
  IF analogValue > 1000 THEN btnNONE
  ELSE IF analogValue < 50 THEN btnRIGHT
  ELSE IF analogValue < 240 THEN btnUP
  ELSE IF analogValue < 400 THEN btnDOWN
  ELSE IF analogValue < 600 THEN btnLEFT
  ELSE IF analogValue < 920 THEN btnSELECT
  ELSE btnNONE

readKeypadState(analogValue) == LcdKeypadShield_readKeypadState(analogValue)

\* ------------------------------------------------------------------------
\* KeypadDevice

\* mutant: the debounce timer is restarted on every poll
debounceKeypad_RestartTimer(a) ==
  /\ _currentKey' = readKeypadState(a)
  /\ _analogKeyValue' = a
  /\ _lastKey' = _currentKey'
  /\ _lastKeyChange' = now
  /\ IF _currentKey' # _lastKey
       THEN _newKey' = _newKey
       ELSE IF U32(now - _lastKeyChange) > DEBOUNCE_PERIOD
              THEN _newKey' = _currentKey'
              ELSE _newKey' = _newKey

\* mutant: a raw change is committed at once
debounceKeypad_NoDebounce(a) ==
  /\ _currentKey' = readKeypadState(a)
  /\ _analogKeyValue' = a
  /\ IF _currentKey' # _lastKey
       THEN /\ _lastKey' = _currentKey'
            /\ _lastKeyChange' = now
            /\ _newKey' = _currentKey'
       ELSE /\ UNCHANGED <<_lastKey, _lastKeyChange>>
            /\ IF U32(now - _lastKeyChange) > DEBOUNCE_PERIOD
                 THEN _newKey' = _currentKey'
                 ELSE _newKey' = _newKey

\* mutant: the elapsed time is the signed difference of the two readings
debounceKeypad_SignedElapsed(a) ==
  /\ _currentKey' = readKeypadState(a)
  /\ _analogKeyValue' = a
  /\ IF _currentKey' # _lastKey
       THEN /\ _lastKey' = _currentKey'
            /\ _lastKeyChange' = now
            /\ _newKey' = _newKey
       ELSE /\ UNCHANGED <<_lastKey, _lastKeyChange>>
            /\ IF now - _lastKeyChange > DEBOUNCE_PERIOD
                 THEN _newKey' = _currentKey'
                 ELSE _newKey' = _newKey

\* mutant: a raw key held for DEBOUNCE_PERIOD ms is committed
debounceKeypad_Inclusive(a) ==
  /\ _currentKey' = readKeypadState(a)
  /\ _analogKeyValue' = a
  /\ IF _currentKey' # _lastKey
       THEN /\ _lastKey' = _currentKey'
            /\ _lastKeyChange' = now
            /\ _newKey' = _newKey
       ELSE /\ UNCHANGED <<_lastKey, _lastKeyChange>>
            /\ IF U32(now - _lastKeyChange) >= DEBOUNCE_PERIOD
                 THEN _newKey' = _currentKey'
                 ELSE _newKey' = _newKey

\* a is the analog sample the hardware gives to this poll
debounceKeypad(a) ==
  /\ _currentKey' = readKeypadState(a)
  /\ _analogKeyValue' = a
  /\ IF _currentKey' # _lastKey
       THEN /\ _lastKey' = _currentKey'
            /\ _lastKeyChange' = now
            /\ _newKey' = _newKey
       ELSE /\ UNCHANGED <<_lastKey, _lastKeyChange>>
            /\ IF U32(now - _lastKeyChange) > DEBOUNCE_PERIOD
                 THEN _newKey' = _currentKey'
                 ELSE _newKey' = _newKey

\* the history kept of a poll made by operation op
PollHistory(op) ==
  /\ kop' = op
  /\ sinceRun' = IF _currentKey' # _currentKey THEN 0 ELSE sinceRun
  /\ onlyKC' = (onlyKC /\ op = "keyChanged")
  /\ now' = now

\* the history a poll by another operation than keyChanged leaves
OtherPollHistory ==
  /\ otherPoll' = TRUE
  /\ commitSinceTrue' = (commitSinceTrue \/ _newKey' # _newKey)
  /\ UNCHANGED <<lastKC, kchg, pNewKey, _lastNewKey>>

\* mutant: currentKey returns the key keyChanged reported last
currentKey_ReportedKey(a) ==
  /\ debounceKeypad(a)
  /\ kret' = _lastNewKey
  /\ PollHistory("currentKey")
  /\ OtherPollHistory

currentKey(a) ==
  /\ debounceKeypad(a)
  /\ kret' = _newKey'
  /\ PollHistory("currentKey")
  /\ OtherPollHistory

currentState(a) ==
  /\ debounceKeypad(a)
  /\ kret' = _currentKey'
  /\ PollHistory("currentState")
  /\ OtherPollHistory

currentAnalogState(a) ==
  /\ debounceKeypad(a)
  /\ kret' = _analogKeyValue'
  /\ PollHistory("currentAnalogState")
  /\ OtherPollHistory

\* mutant: the raw key is compared and reported instead of the debounced key
keyChanged_ReportRaw(a) ==
  /\ debounceKeypad(a)
  /\ IF _currentKey' # _lastNewKey
       THEN /\ pNewKey' = _currentKey'
            /\ _lastNewKey' = _currentKey'
            /\ kchg' = TRUE
       ELSE /\ UNCHANGED <<pNewKey, _lastNewKey>>
            /\ kchg' = FALSE
  /\ PollHistory("keyChanged")
  /\ lastKC' = IF kchg' THEN "true" ELSE "false"
  /\ otherPoll' = FALSE
  /\ commitSinceTrue' = IF kchg' THEN FALSE ELSE (commitSinceTrue \/ _newKey' # _newKey)
  /\ UNCHANGED kret

\* mutant: the reported key is not remembered
keyChanged_NoMemory(a) ==
  /\ debounceKeypad(a)
  /\ IF _newKey' # _lastNewKey
       THEN /\ pNewKey' = _newKey'
            /\ _lastNewKey' = _lastNewKey
            /\ kchg' = TRUE
       ELSE /\ UNCHANGED <<pNewKey, _lastNewKey>>
            /\ kchg' = FALSE
  /\ PollHistory("keyChanged")
  /\ lastKC' = IF kchg' THEN "true" ELSE "false"
  /\ otherPoll' = FALSE
  /\ commitSinceTrue' = IF kchg' THEN FALSE ELSE (commitSinceTrue \/ _newKey' # _newKey)
  /\ UNCHANGED kret

keyChanged(a) ==
  /\ debounceKeypad(a)
  /\ IF _newKey' # _lastNewKey
       THEN /\ pNewKey' = _newKey'
            /\ _lastNewKey' = _newKey'
            /\ kchg' = TRUE
       ELSE /\ UNCHANGED <<pNewKey, _lastNewKey>>
            /\ kchg' = FALSE
  /\ PollHistory("keyChanged")
  /\ lastKC' = IF kchg' THEN "true" ELSE "false"
  /\ otherPoll' = FALSE
  /\ commitSinceTrue' = IF kchg' THEN FALSE ELSE (commitSinceTrue \/ _newKey' # _newKey)
  /\ UNCHANGED kret

Min(x, y) == IF x < y THEN x ELSE y

\* d milliseconds pass
Tick(d) ==
  /\ now + d <= MaxTime
  /\ now' = U32(now + d)
  /\ sinceRun' = Min(sinceRun + d, DEBOUNCE_PERIOD + 1)
  /\ kop' = "tick"
  /\ UNCHANGED <<_currentKey, _analogKeyValue, _lastKeyChange, _lastKey, _newKey,
                 _lastNewKey, pNewKey, kret, kchg, lastKC, otherPoll,
                 commitSinceTrue, onlyKC>>

\* ------------------------------------------------------------------------
\* A KeypadDevice as a value: what the operations make of the device k when
\* the hardware gives the analog sample a at the time t

\* KeypadDevice::KeypadDevice
KeypadDevice ==
  [_currentKey |-> Byte(-1), _lastKeyChange |-> 0, _lastKey |-> Byte(-2),
   _newKey |-> Byte(-1), _lastNewKey |-> Byte(-2), op |-> "none", ret |-> 0]

debounceKeypadOf(k, a, t) ==
  LET raw == readKeypadState(a)
  IN IF raw # k._lastKey
       THEN [k EXCEPT !._currentKey = raw, !._lastKey = raw, !._lastKeyChange = t]
       ELSE IF U32(t - k._lastKeyChange) > DEBOUNCE_PERIOD
              THEN [k EXCEPT !._currentKey = raw, !._newKey = raw]
              ELSE [k EXCEPT !._currentKey = raw]

currentKeyOf(k, a, t) ==
  LET d == debounceKeypadOf(k, a, t)
  IN [d EXCEPT !.op = "currentKey", !.ret = d._newKey]

\* ret is the byte keyChanged writes through pNewKey
keyChangedOf(k, a, t) ==
  LET d == debounceKeypadOf(k, a, t)
  IN IF d._newKey # d._lastNewKey
       THEN [d EXCEPT !.op = "keyChanged", !.ret = d._newKey,
                      !._lastNewKey = d._newKey]
       ELSE [d EXCEPT !.op = "keyChanged"]

\* KeypadDevice::KeypadDevice; -1 and -2 stored in a byte are 255 and 254;
\* millis() gives t when the first operation is called
KeypadStartedAt(t) ==
  /\ _currentKey = Byte(-1)
  /\ _analogKeyValue = 0
  /\ _lastKeyChange = 0
  /\ _lastKey = Byte(-2)
  /\ _newKey = Byte(-1)
  /\ _lastNewKey = Byte(-2)
  /\ now = t
  /\ pNewKey = btnNONE
  /\ kop = "none"
  /\ kret = 0
  /\ kchg = FALSE
  /\ sinceRun = 0
  /\ lastKC = "none"
  /\ otherPoll = FALSE
  /\ other = KeypadDevice
  /\ commitSinceTrue = FALSE
  /\ onlyKC = TRUE

KeypadInit == KeypadStartedAt(0)

\* the value of millis(), WrapLead ms before the counter wraps
WrapStart == U32(-WrapLead)

\* d milliseconds pass on a clock that was at start when the device was
\* first used; the counter wraps
TickFrom(start, d) ==
  /\ U32(now - start) + d <= MaxTime
  /\ now' = U32(now + d)
  /\ sinceRun' = Min(sinceRun + d, DEBOUNCE_PERIOD + 1)
  /\ kop' = "tick"
  /\ UNCHANGED <<_currentKey, _analogKeyValue, _lastKeyChange, _lastKey, _newKey,
                 _lastNewKey, pNewKey, kret, kchg, lastKC, otherPoll,
                 commitSinceTrue, onlyKC>>

\* ------------------------------------------------------------------------
\* The display backend (LcdKeypadShieldDisplayDevice, an HD44780)

\* the glyph the controller shows for ch: a CGRAM index for the eight
\* reserved characters @ ' < > ^ ~ ` &, the character itself otherwise
translateChar(ch) ==
  IF ch = 64 THEN SYMBOL_DEGREES
  ELSE IF ch = 39 THEN SYMBOL_MINUTES
  ELSE IF ch = LT THEN SYMBOL_LEFT_ARROW
  ELSE IF ch = GT THEN SYMBOL_RIGHT_ARROW
  ELSE IF ch = 94 THEN SYMBOL_UP_ARROW
  ELSE IF ch = 126 THEN SYMBOL_DOWN_ARROW
  ELSE IF ch = 96 THEN SYMBOL_NO_TRACKING
  ELSE IF ch = 38 THEN SYMBOL_TRACKING
  ELSE ch

Rows == 0..(NUM_ROWS - 1)

Blanks(n) == [i \in 1..n |-> SP]

\* what a cleared display shows
BlankRows == [r \in Rows |-> [i \in 1..NUM_COLUMNS |-> translateChar(SP)]]

\* the display with an empty log of calls, as a menu operation finds it
Fresh(d) == [d EXCEPT !.calls = <<>>]

DevSetCursor(d, c, r) ==
  [d EXCEPT !.col = c, !.row = r,
            !.calls = Append(@, [f |-> "setCursor", col |-> c, row |-> r, ch |-> 0])]

\* printChar for every character of str, in order: each glyph is written at
\* the cursor, and the cursor moves one column to the right and wraps to
\* the next row; a cursor outside the display shows nothing.  Positions are
\* counted along the rows: row * NUM_COLUMNS + column.
DevPrint(d, str) ==
  LET n == Len(str)
      onColumn == d.col < NUM_COLUMNS
      \* where the first character goes; from a column off the display the
      \* first character is lost and the second starts the next row
      first == IF onColumn THEN d.row * NUM_COLUMNS + d.col
               ELSE (d.row + 1) * NUM_COLUMNS - 1
      low == IF onColumn THEN 1 ELSE 2
      last == first + n
  IN [rows |-> [r \in Rows |-> [i \in 1..NUM_COLUMNS |->
                 LET k == r * NUM_COLUMNS + (i - 1) - first + 1
                 IN IF low <= k /\ k <= n THEN translateChar(str[k])
                    ELSE d.rows[r][i]]],
      col |-> IF n = 0 THEN d.col ELSE last % NUM_COLUMNS,
      row |-> IF n = 0 THEN d.row ELSE last \div NUM_COLUMNS,
      calls |-> d.calls \o [k \in 1..n |->
                  [f |-> "printChar", col |-> 0, row |-> 0, ch |-> str[k]]]]

DevPrintChar(d, c) == DevPrint(d, <<c>>)

DevClear(d) ==
  [rows |-> BlankRows, col |-> 0, row |-> 0,
   calls |-> Append(d.calls, [f |-> "clear", col |-> 0, row |-> 0, ch |-> 0])]

\* ------------------------------------------------------------------------
\* Utility

\* int / int of C: the quotient truncated towards zero
CDiv(a, b) == IF a >= 0 THEN a \div b ELSE -((-a) \div b)

Max(x, y) == IF x > y THEN x ELSE y

\* add, then wrap once around the inclusive limits
adjustWrap(current, adjustBy, minVal, maxVal) ==
  LET c1 == current + adjustBy
      c2 == IF c1 > maxVal THEN c1 - (maxVal + 1 - minVal) ELSE c1
  IN IF c2 < minVal THEN c2 + (maxVal + 1 - minVal) ELSE c2

\* ------------------------------------------------------------------------
\* FullLcdMenu

ValidRow(r) == r \in Rows

\* mutant: the printed line is not remembered
printMenu_NoCache(cache, d, row, col, line) ==
  IF cache[row] # line \/ col # 0
    THEN [cache |-> cache,
          dev |-> DevPrint(DevPrint(DevSetCursor(d, col, row), line),
                           Blanks(Max(0, NUM_COLUMNS - Len(line))))]
    ELSE [cache |-> cache, dev |-> d]

\* printMenu(line) with the logical cursor at (col, row), row a row of the
\* display: the row cache and the display it leaves
printMenu(cache, d, row, col, line) ==
  IF cache[row] # line \/ col # 0
    THEN [cache |-> [cache EXCEPT ![row] = line],
          dev |-> DevPrint(DevPrint(DevSetCursor(d, col, row), line),
                           Blanks(Max(0, NUM_COLUMNS - Len(line))))]
    ELSE [cache |-> cache, dev |-> d]

\* "%c%s%c" of item i (counted from 0) of items
Wrapped(items, active, i) ==
  LET isActive == (i = active)
  IN <<IF isActive THEN GT ELSE SP>> \o items[i + 1].display
       \o <<IF isActive THEN LT ELSE SP>>

RECURSIVE MenuString(_, _, _)
\* the wrapped items 0..n-1 one after the other
MenuString(items, active, n) ==
  IF n = 0 THEN <<>>
  ELSE MenuString(items, active, n - 1) \o Wrapped(items, active, n - 1)

\* where the active item starts in the menu string (a byte)
OffsetToActive(items, active, n) ==
  IF active < n THEN Byte(Len(MenuString(items, active, active))) ELSE 0

\* mutant: in front of the first items the window starts at the menu string
BufMenu_NoFrontPad(items, active, n, longest) ==
  LET menuString == MenuString(items, active, n)
      usableColumns == NUM_COLUMNS - 1
      margin == CDiv(usableColumns - longest, 2)
      offsetIntoString == OffsetToActive(items, active, n) - margin
      start == IF offsetIntoString < 0 THEN 0 ELSE offsetIntoString
      ncopy == Max(0, Min(usableColumns, Len(menuString) - start))
  IN SubSeq(menuString, start + 1, start + ncopy) \o Blanks(Max(0, NUM_COLUMNS - ncopy))

\* mutant: the menu string is copied into the reserved last column too
BufMenu_NoReserve(items, active, n, longest) ==
  LET menuString == MenuString(items, active, n)
      margin == CDiv(NUM_COLUMNS - 1 - longest, 2)
      offsetIntoString == OffsetToActive(items, active, n) - margin
      front == IF offsetIntoString < 0 THEN -offsetIntoString ELSE 0
      start == IF offsetIntoString < 0 THEN 0 ELSE offsetIntoString
      ncopy == Max(0, Min(NUM_COLUMNS - front, Len(menuString) - start))
  IN Blanks(front) \o SubSeq(menuString, start + 1, start + ncopy)
       \o Blanks(Max(0, NUM_COLUMNS - front - ncopy))

\* the row updateDisplay builds in bufMenu
BufMenu(items, active, n, longest) ==
  LET menuString == MenuString(items, active, n)
      usableColumns == NUM_COLUMNS - 1
      margin == CDiv(usableColumns - longest, 2)
      offsetIntoString == OffsetToActive(items, active, n) - margin
      front == IF offsetIntoString < 0 THEN -offsetIntoString ELSE 0
      start == IF offsetIntoString < 0 THEN 0 ELSE offsetIntoString
      ncopy == Max(0, Min(usableColumns - front, Len(menuString) - start))
  IN Blanks(front) \o SubSeq(menuString, start + 1, start + ncopy)
       \o Blanks(Max(0, NUM_COLUMNS - front - ncopy))

\* sprintf writes marker, label, marker and the terminator into scratchBuffer[12]
ScratchOverflow(items, n) == \E i \in 1..n : Len(items[i].display) + 3 > 12

\* updateDisplay(): the row cache and the display it leaves
updateDisplay(items, active, n, longest, cache, d) ==
  printMenu(cache, DevSetCursor(d, 0, 0), 0, 0, BufMenu(items, active, n, longest))

\* the identifiers items are added with, and identifiers no item carries
ItemIds == {1, 2}
AbsentIds == {0}

\* the record of the operation op, called with a line and an id (0 for none)
Called(op, line, id) ==
  /\ mop' = op
  /\ argLine' = line
  /\ argId' = id

\* any operation but setNextActive ends a run of setNextActive calls
EndRun ==
  /\ runLen' = 0
  /\ runStart' = 0

\* the program runs into undefined behaviour; what follows is not modelled
Undefined(what) ==
  /\ ub' = what
  /\ UNCHANGED <<_menuItems, _numMenuItems, _activeMenuIndex, _longestDisplay,
                 _activeRow, _activeCol, _lastDisplay, _display, mret,
                 lastPrinted, runLen, runStart>>

\* addItem(disp, id); past the capacity it writes beyond the array
addItem(disp, id) ==
  /\ ub = "none"
  /\ IF _numMenuItems >= _maxItems
       THEN Undefined("menuItems") /\ Called("addItem", <<>>, 0)
       ELSE /\ Called("addItem", disp, id)
            /\ _menuItems' = Append(_menuItems, [display |-> disp, id |-> id])
            /\ _numMenuItems' = Byte(_numMenuItems + 1)
            /\ _longestDisplay' = Byte(Max(_longestDisplay, Len(disp)))
            /\ _display' = Fresh(_display)
            /\ EndRun
            /\ UNCHANGED <<_activeMenuIndex, _activeRow, _activeCol, _lastDisplay,
                           ub, mret, lastPrinted>>

\* getActive(); with no item at the active index it reads a pointer that is not there
getActive ==
  /\ ub = "none"
  /\ Called("getActive", <<>>, 0)
  /\ IF _activeMenuIndex >= _numMenuItems
       THEN Undefined("getActive")
       ELSE /\ mret' = _menuItems[_activeMenuIndex + 1].id
            /\ _display' = Fresh(_display)
            /\ UNCHANGED <<_menuItems, _numMenuItems, _activeMenuIndex,
                           _longestDisplay, _activeRow, _activeCol, _lastDisplay,
                           ub, lastPrinted, runLen, runStart>>

\* the indices (from 0) of the items that carry id
IndicesOf(id) == {i \in 0..(_numMenuItems - 1) : _menuItems[i + 1].id = id}

First(S) == CHOOSE i \in S : \A j \in S : i <= j

\* mutant: the scan does not stop at the first match
setActive_LastMatch(id) ==
  /\ ub = "none"
  /\ Called("setActive", <<>>, id)
  /\ _activeMenuIndex' = IF IndicesOf(id) = {} THEN _activeMenuIndex
                         ELSE CHOOSE i \in IndicesOf(id) : \A j \in IndicesOf(id) : j <= i
  /\ _display' = Fresh(_display)
  /\ EndRun
  /\ UNCHANGED <<_menuItems, _numMenuItems, _longestDisplay, _activeRow,
                 _activeCol, _lastDisplay, ub, mret, lastPrinted>>

\* mutant: an id that is not found selects the first item
setActive_ResetOnMiss(id) ==
  /\ ub = "none"
  /\ Called("setActive", <<>>, id)
  /\ _activeMenuIndex' = IF IndicesOf(id) = {} THEN 0 ELSE First(IndicesOf(id))
  /\ _display' = Fresh(_display)
  /\ EndRun
  /\ UNCHANGED <<_menuItems, _numMenuItems, _longestDisplay, _activeRow,
                 _activeCol, _lastDisplay, ub, mret, lastPrinted>>

setActive(id) ==
  /\ ub = "none"
  /\ Called("setActive", <<>>, id)
  /\ _activeMenuIndex' = IF IndicesOf(id) = {} THEN _activeMenuIndex
                         ELSE First(IndicesOf(id))
  /\ _display' = Fresh(_display)
  /\ EndRun
  /\ UNCHANGED <<_menuItems, _numMenuItems, _longestDisplay, _activeRow,
                 _activeCol, _lastDisplay, ub, mret, lastPrinted>>

\* mutant: the scan does not stop at the first match
findById_LastMatch(id) ==
  /\ ub = "none"
  /\ Called("findById", <<>>, id)
  /\ mret' = IF IndicesOf(id) = {} THEN -1
             ELSE CHOOSE i \in IndicesOf(id) : \A j \in IndicesOf(id) : j <= i
  /\ _display' = Fresh(_display)
  /\ EndRun
  /\ UNCHANGED <<_menuItems, _numMenuItems, _activeMenuIndex, _longestDisplay,
                 _activeRow, _activeCol, _lastDisplay, ub, lastPrinted>>

\* findById(id): the item returned is given by its index (from 0) in
\* _menuItems, and NULL by -1
findById(id) ==
  /\ ub = "none"
  /\ Called("findById", <<>>, id)
  /\ mret' = IF IndicesOf(id) = {} THEN -1 ELSE First(IndicesOf(id))
  /\ _display' = Fresh(_display)
  /\ EndRun
  /\ UNCHANGED <<_menuItems, _numMenuItems, _activeMenuIndex, _longestDisplay,
                 _activeRow, _activeCol, _lastDisplay, ub, lastPrinted>>

setCursor(col, row) ==
  /\ ub = "none"
  /\ Called("setCursor", <<>>, 0)
  /\ _activeRow' = row
  /\ _activeCol' = col
  /\ _display' = Fresh(_display)
  /\ EndRun
  /\ UNCHANGED <<_menuItems, _numMenuItems, _activeMenuIndex, _longestDisplay,
                 _lastDisplay, ub, mret, lastPrinted>>

clear ==
  /\ ub = "none"
  /\ Called("clear", <<>>, 0)
  /\ _display' = DevClear(Fresh(_display))
  /\ EndRun
  /\ UNCHANGED <<_menuItems, _numMenuItems, _activeMenuIndex, _longestDisplay,
                 _activeRow, _activeCol, _lastDisplay, ub, mret, lastPrinted>>

\* the call updateDisplay makes to printMenu is a printMenu call on row 0
PrintedByUpdate(index) ==
  [lastPrinted EXCEPT ![0] = BufMenu(_menuItems, index, _numMenuItems, _longestDisplay)]

\* mutant: the logical cursor is left where the row was printed
CallUpdateDisplay_NoSetCursor ==
  /\ ub = "none"
  /\ Called("updateDisplay", <<>>, 0)
  /\ IF ScratchOverflow(_menuItems, _numMenuItems)
       THEN Undefined("scratchBuffer")
       ELSE LET r == updateDisplay(_menuItems, _activeMenuIndex, _numMenuItems,
                                   _longestDisplay, _lastDisplay, Fresh(_display))
            IN /\ _lastDisplay' = r.cache
               /\ _display' = r.dev
               /\ _activeRow' = 0
               /\ _activeCol' = 0
               /\ lastPrinted' = PrintedByUpdate(_activeMenuIndex)
               /\ EndRun
               /\ UNCHANGED <<_menuItems, _numMenuItems, _activeMenuIndex,
                              _longestDisplay, ub, mret>>

CallUpdateDisplay ==
  /\ ub = "none"
  /\ Called("updateDisplay", <<>>, 0)
  /\ IF ScratchOverflow(_menuItems, _numMenuItems)
       THEN Undefined("scratchBuffer")
       ELSE LET r == updateDisplay(_menuItems, _activeMenuIndex, _numMenuItems,
                                   _longestDisplay, _lastDisplay, Fresh(_display))
            IN /\ _lastDisplay' = r.cache
               /\ _display' = r.dev
               /\ _activeRow' = 1
               /\ _activeCol' = 0
               /\ lastPrinted' = PrintedByUpdate(_activeMenuIndex)
               /\ EndRun
               /\ UNCHANGED <<_menuItems, _numMenuItems, _activeMenuIndex,
                              _longestDisplay, ub, mret>>

\* the history a setNextActive call leaves
NextRun ==
  /\ runLen' = Min(runLen + 1, _maxItems + 2)
  /\ runStart' = IF runLen = 0 THEN _activeMenuIndex ELSE runStart

\* mutant: the upper limit passed to adjustWrap is the number of items
setNextActive_OffByOne ==
  /\ ub = "none"
  /\ Called("setNextActive", <<>>, 0)
  /\ IF ScratchOverflow(_menuItems, _numMenuItems)
       THEN Undefined("scratchBuffer") /\ UNCHANGED _activeMenuIndex
       ELSE LET index == Byte(adjustWrap(_activeMenuIndex, 1, 0, _numMenuItems))
                r == updateDisplay(_menuItems, index, _numMenuItems,
                                   _longestDisplay, _lastDisplay, Fresh(_display))
            IN /\ _activeMenuIndex' = index
               /\ _lastDisplay' = r.cache
               /\ _display' = DevPrint(DevSetCursor(r.dev, 0, 1), Blanks(NUM_COLUMNS))
               /\ _activeRow' = 1
               /\ _activeCol' = 0
               /\ lastPrinted' = PrintedByUpdate(index)
               /\ NextRun
               /\ UNCHANGED <<_menuItems, _numMenuItems, _longestDisplay, ub, mret>>

setNextActive ==
  /\ ub = "none"
  /\ Called("setNextActive", <<>>, 0)
  /\ IF ScratchOverflow(_menuItems, _numMenuItems)
       THEN Undefined("scratchBuffer") /\ UNCHANGED _activeMenuIndex
       ELSE LET index == Byte(adjustWrap(_activeMenuIndex, 1, 0, _numMenuItems - 1))
                r == updateDisplay(_menuItems, index, _numMenuItems,
                                   _longestDisplay, _lastDisplay, Fresh(_display))
            IN /\ _activeMenuIndex' = index
               /\ _lastDisplay' = r.cache
               /\ _display' = DevPrint(DevSetCursor(r.dev, 0, 1), Blanks(NUM_COLUMNS))
               /\ _activeRow' = 1
               /\ _activeCol' = 0
               /\ lastPrinted' = PrintedByUpdate(index)
               /\ NextRun
               /\ UNCHANGED <<_menuItems, _numMenuItems, _longestDisplay, ub, mret>>

\* mutant: the logical cursor of the menu follows the glyph
printAt_MovesCursor(col, row, c) ==
  /\ ub = "none"
  /\ Called("printAt", <<col, row, c>>, 0)
  /\ _display' = DevPrintChar(DevSetCursor(Fresh(_display), col, row), c)
  /\ _activeRow' = row
  /\ _activeCol' = col
  /\ EndRun
  /\ UNCHANGED <<_menuItems, _numMenuItems, _activeMenuIndex, _longestDisplay,
                 _lastDisplay, ub, mret, lastPrinted>>

\* printAt(col, row, c); the call is recorded with <<col, row, c>> for its line
printAt(col, row, c) ==
  /\ ub = "none"
  /\ Called("printAt", <<col, row, c>>, 0)
  /\ _display' = DevPrintChar(DevSetCursor(Fresh(_display), col, row), c)
  /\ EndRun
  /\ UNCHANGED <<_menuItems, _numMenuItems, _activeMenuIndex, _longestDisplay,
                 _activeRow, _activeCol, _lastDisplay, ub, mret, lastPrinted>>

\* printMenu(line) as the application calls it; with the logical cursor on no
\* row of the display it indexes _lastDisplay out of bounds
CallPrintMenu(line) ==
  /\ ub = "none"
  /\ Called("printMenu", line, 0)
  /\ IF ~ValidRow(_activeRow)
       THEN Undefined("lastDisplay")
       ELSE LET r == printMenu(_lastDisplay, Fresh(_display), _activeRow, _activeCol, line)
            IN /\ _lastDisplay' = r.cache
               /\ _display' = r.dev
               /\ lastPrinted' = [lastPrinted EXCEPT ![_activeRow] = line]
               /\ EndRun
               /\ UNCHANGED <<_menuItems, _numMenuItems, _activeMenuIndex,
                              _longestDisplay, _activeRow, _activeCol, ub, mret>>

\* FullLcdMenu::FullLcdMenu(maxItems); -1 stored in a byte is 255; the
\* display is cleared by its own constructor
FullLcdMenu(maxItems) ==
  /\ _maxItems = maxItems
  /\ _menuItems = <<>>
  /\ _numMenuItems = 0
  /\ _activeMenuIndex = 0
  /\ _longestDisplay = 0
  /\ _activeRow = Byte(-1)
  /\ _activeCol = Byte(-1)
  /\ _lastDisplay = [r \in Rows |-> <<>>]
  /\ _display = [rows |-> BlankRows, col |-> 0, row |-> 0, calls |-> <<>>]
  /\ ub = "none"
  /\ mop = "none"
  /\ argLine = <<>>
  /\ argId = 0
  /\ mret = 0
  /\ lastPrinted = [r \in Rows |-> <<0>>]
  /\ runLen = 0
  /\ runStart = 0

MenuInit == FullLcdMenu(MaxItems)

\* the labels "A" and "CCC"
Labels == {<<65>>, <<67, 67, 67>>}

\* the item "BB" the display operations are explored with
DisplayItems == {[display |-> <<66, 66>>, id |-> 1]}

\* the (column, row) positions setCursor is called with; NUM_ROWS is no row
\* of the display
CursorPositions == {<<0, 0>>, <<0, 1>>, <<1, 0>>, <<0, NUM_ROWS>>}

\* the (column, row) positions printAt is called with
PrintAtPositions == {<<NUM_COLUMNS - 1, 0>>, <<0, 1>>}

\* the lines "" and "A>"
Lines == {<<>>, <<65, GT>>}

AddItem ==
  /\ \E disp \in Labels : \E id \in ItemIds : addItem(disp, id)
  /\ UNCHANGED <<keypadVars, _maxItems, backendVars, storeVars, gyroVars, realtimeVars>>

AddDisplayItem ==
  /\ \E it \in DisplayItems : addItem(it.display, it.id)
  /\ UNCHANGED <<keypadVars, _maxItems, backendVars, storeVars, gyroVars, realtimeVars>>

GetActive == getActive /\ UNCHANGED <<keypadVars, _maxItems, backendVars, storeVars, gyroVars, realtimeVars>>

SetActive == (\E id \in ItemIds \cup AbsentIds : setActive(id)) /\ UNCHANGED <<keypadVars, _maxItems, backendVars, storeVars, gyroVars, realtimeVars>>

\* an empty menu is advanced as many times as it has room for items at most
SetNextActive ==
  /\ _numMenuItems = 0 => _activeMenuIndex < _maxItems
  /\ setNextActive
  /\ UNCHANGED <<keypadVars, _maxItems, backendVars, storeVars, gyroVars, realtimeVars>>

UpdateDisplay == CallUpdateDisplay /\ UNCHANGED <<keypadVars, _maxItems, backendVars, storeVars, gyroVars, realtimeVars>>

SetCursor ==
  /\ \E p \in CursorPositions : setCursor(p[1], p[2])
  /\ UNCHANGED <<keypadVars, _maxItems, backendVars, storeVars, gyroVars, realtimeVars>>

Clear == clear /\ UNCHANGED <<keypadVars, _maxItems, backendVars, storeVars, gyroVars, realtimeVars>>

\* the tracking indicator '&'
PrintAt ==
  /\ \E p \in PrintAtPositions : printAt(p[1], p[2], 38)
  /\ UNCHANGED <<keypadVars, _maxItems, backendVars, storeVars, gyroVars, realtimeVars>>

PrintMenu == (\E line \in Lines : CallPrintMenu(line)) /\ UNCHANGED <<keypadVars, _maxItems, backendVars, storeVars, gyroVars, realtimeVars>>

\* ------------------------------------------------------------------------
\* The display and keypad backends, called on their own

\* what SSD1306DisplayDevice::printChar draws for ch: the font and the code
\* of the glyph
SSD1306_printChar(ch) ==
  IF ch = GT THEN [font |-> "open_iconic_arrow", code |-> 64 + 14]
  ELSE IF ch = LT THEN [font |-> "open_iconic_arrow", code |-> 64 + 13]
  ELSE IF ch = 94 THEN [font |-> "open_iconic_arrow", code |-> 64 + 15]
  ELSE IF ch = 126 THEN [font |-> "open_iconic_arrow", code |-> 64 + 12]
  ELSE IF ch = 64 THEN [font |-> "7x14", code |-> 176]
  ELSE IF ch = 38 THEN [font |-> "open_iconic_thing", code |-> 64 + 15]
  ELSE IF ch = 96 THEN [font |-> "open_iconic_thing", code |-> 64 + 4]
  ELSE [font |-> "7x14", code |-> ch]

\* what the HD44780 backends write for ch: a code of the controller memory
HD44780_printChar(ch) == [font |-> "HD44780", code |-> translateChar(ch)]

BackendInit ==
  /\ fn = "none"
  /\ fin = <<>>
  /\ fout = [key |-> btnNONE, analog |-> 0]

\* the backend function f was called on in, the tuple of what was passed to
\* it or read by it, and gave out
BackendCall(f, in, out) ==
  /\ fn' = f
  /\ fin' = in
  /\ fout' = out

\* the characters printChar is called with
Chars == 0..MaxChar

PrintCharHD44780 ==
  /\ \E ch \in Chars : BackendCall("HD44780.printChar", <<ch>>, HD44780_printChar(ch))
  /\ UNCHANGED <<keypadVars, menuVars, storeVars, gyroVars, realtimeVars>>

PrintCharSSD1306 ==
  /\ \E ch \in Chars : BackendCall("SSD1306.printChar", <<ch>>, SSD1306_printChar(ch))
  /\ UNCHANGED <<keypadVars, menuVars, storeVars, gyroVars, realtimeVars>>

\* the button bits of LiquidTWI2::readButtons(), tested by the port-expander
\* keypad
BUTTON_SELECT == 1
BUTTON_RIGHT == 2
BUTTON_DOWN == 4
BUTTON_UP == 8
BUTTON_LEFT == 16

\* buttons & mask, mask a single bit
And(buttons, mask) == (buttons \div mask) % 2 = 1

\* mutant: SELECT is tested first and overwritten by the directions
MCP23008_MCP23017_readKeypadState_SelectFirst(buttons) ==
  [key |-> IF buttons = 0 THEN btnNONE
           ELSE IF And(buttons, BUTTON_RIGHT) THEN btnRIGHT
           ELSE IF And(buttons, BUTTON_LEFT) THEN btnLEFT
           ELSE IF And(buttons, BUTTON_DOWN) THEN btnDOWN
           ELSE IF And(buttons, BUTTON_UP) THEN btnUP
           ELSE IF And(buttons, BUTTON_SELECT) THEN btnSELECT
           ELSE btnNONE,
   analog |-> buttons * 50]

\* MCP23008_MCP23017KeypadDevice::readKeypadState on the value buttons of
\* readButtons(): each test that succeeds overwrites keyState
MCP23008_MCP23017_readKeypadState(buttons) ==
  [key |-> IF buttons = 0 THEN btnNONE
           ELSE IF And(buttons, BUTTON_SELECT) THEN btnSELECT
           ELSE IF And(buttons, BUTTON_RIGHT) THEN btnRIGHT
           ELSE IF And(buttons, BUTTON_LEFT) THEN btnLEFT
           ELSE IF And(buttons, BUTTON_DOWN) THEN btnDOWN
           ELSE IF And(buttons, BUTTON_UP) THEN btnUP
           ELSE btnNONE,
   analog |-> buttons * 50]

MIDSCALE == 4096 \div 2
DEADBAND == 500

\* mutant: the left/right axis is tested after the up/down axis
MiniJoystick_readKeypadState_XAfterY(x, y, push) ==
  [key |-> IF push THEN btnSELECT
           ELSE IF x < MIDSCALE - DEADBAND THEN btnLEFT
           ELSE IF x > MIDSCALE + DEADBAND THEN btnRIGHT
           ELSE IF y < MIDSCALE - DEADBAND THEN btnDOWN
           ELSE IF y > MIDSCALE + DEADBAND THEN btnUP
           ELSE btnNONE,
   analog |-> x]

\* MiniJoystickKeypadDevice::readKeypadState on the samples x and y of the
\* two axes and the push button: each test that succeeds overwrites keyState
MiniJoystick_readKeypadState(x, y, push) ==
  [key |-> IF push THEN btnSELECT
           ELSE IF y < MIDSCALE - DEADBAND THEN btnDOWN
           ELSE IF y > MIDSCALE + DEADBAND THEN btnUP
           ELSE IF x < MIDSCALE - DEADBAND THEN btnLEFT
           ELSE IF x > MIDSCALE + DEADBAND THEN btnRIGHT
           ELSE btnNONE,
   analog |-> x]

\* the samples of a joystick axis: the ends of the scale, the middle and the
\* two sides of each threshold
AxisSamples ==
  {0, MIDSCALE - DEADBAND - 1, MIDSCALE - DEADBAND, MIDSCALE,
   MIDSCALE + DEADBAND, MIDSCALE + DEADBAND + 1, 4096 - 1}

ReadLcdKeypadShield ==
  /\ \E a \in 0..MaxAnalog :
        BackendCall("LcdKeypadShield.readKeypadState", <<a>>,
                    [key |-> LcdKeypadShield_readKeypadState(a), analog |-> a])
  /\ UNCHANGED <<keypadVars, menuVars, storeVars, gyroVars, realtimeVars>>

ReadMCP23008_MCP23017 ==
  /\ \E buttons \in 0..MaxButtons :
        BackendCall("MCP23008_MCP23017.readKeypadState", <<buttons>>,
                    MCP23008_MCP23017_readKeypadState(buttons))
  /\ UNCHANGED <<keypadVars, menuVars, storeVars, gyroVars, realtimeVars>>

ReadMiniJoystick ==
  /\ \E x \in AxisSamples : \E y \in AxisSamples : \E push \in BOOLEAN :
        BackendCall("MiniJoystick.readKeypadState", <<x, y, IF push THEN 1 ELSE 0>>,
                    MiniJoystick_readKeypadState(x, y, push))
  /\ UNCHANGED <<keypadVars, menuVars, storeVars, gyroVars, realtimeVars>>

BackendNext ==
  \/ PrintCharHD44780
  \/ PrintCharSSD1306
  \/ ReadLcdKeypadShield
  \/ ReadMCP23008_MCP23017
  \/ ReadMiniJoystick

\* ------------------------------------------------------------------------
\* The backlight brightness and its storage

\* the levels the brightness is set to and the storage holds
Levels == {0, 1, 100, 255}

\* EEPROMStore::getBrightness(): the stored byte
EEPROMStore_getBrightness == eeprom

\* EEPROMStore::storeBrightness(value): the storage after the call
EEPROMStore_storeBrightness(value) == Byte(value)

\* the construction leaves _brightness indeterminate: it is one of levels;
\* the storage holds one of levels
StoreInit(levels) ==
  /\ _brightness \in levels
  /\ eeprom \in levels
  /\ eepromLog = <<>>
  /\ contrast = -1
  /\ bop = "none"
  /\ barg = [level |-> 0, persist |-> FALSE]
  /\ bret = 0
  /\ lastLevel = -1
  /\ lastPersisted = eeprom

\* mutant: the level is stored whatever persist is
setBacklightBrightness_AlwaysPersist(level, persist) ==
  /\ _brightness' = Byte(level)
  /\ contrast' = _brightness'
  /\ eeprom' = EEPROMStore_storeBrightness(_brightness')
  /\ eepromLog' = <<[op |-> "write", value |-> _brightness']>>
  /\ bop' = "setBacklightBrightness"
  /\ barg' = [level |-> level, persist |-> persist]
  /\ lastLevel' = level
  /\ lastPersisted' = IF persist THEN level ELSE lastPersisted
  /\ UNCHANGED bret

\* setBacklightBrightness(level, persist) called by the application
setBacklightBrightness(level, persist) ==
  /\ _brightness' = Byte(level)
  /\ contrast' = _brightness'
  /\ IF persist
       THEN /\ eeprom' = EEPROMStore_storeBrightness(_brightness')
            /\ eepromLog' = <<[op |-> "write", value |-> _brightness']>>
       ELSE /\ eeprom' = eeprom
            /\ eepromLog' = <<>>
  /\ bop' = "setBacklightBrightness"
  /\ barg' = [level |-> level, persist |-> persist]
  /\ lastLevel' = level
  /\ lastPersisted' = IF persist THEN level ELSE lastPersisted
  /\ UNCHANGED bret

\* startup(): the stored brightness is read and set with persist = false
FullLcdMenu_startup ==
  /\ _brightness' = EEPROMStore_getBrightness
  /\ contrast' = _brightness'
  /\ eeprom' = eeprom
  /\ eepromLog' = <<[op |-> "read", value |-> EEPROMStore_getBrightness]>>
  /\ bop' = "startup"
  /\ lastLevel' = _brightness'
  /\ UNCHANGED <<barg, bret, lastPersisted>>

getBacklightBrightness ==
  /\ bret' = _brightness
  /\ eepromLog' = <<>>
  /\ bop' = "getBacklightBrightness"
  /\ UNCHANGED <<_brightness, eeprom, contrast, barg, lastLevel, lastPersisted>>

Startup ==
  /\ FullLcdMenu_startup
  /\ UNCHANGED <<keypadVars, menuVars, backendVars, gyroVars, realtimeVars>>

SetBacklightBrightness ==
  /\ \E level \in Levels : \E persist \in BOOLEAN :
       setBacklightBrightness(level, persist)
  /\ UNCHANGED <<keypadVars, menuVars, backendVars, gyroVars, realtimeVars>>

GetBacklightBrightness ==
  /\ getBacklightBrightness
  /\ UNCHANGED <<keypadVars, menuVars, backendVars, gyroVars, realtimeVars>>

BrightnessNext ==
  \/ Startup
  \/ SetBacklightBrightness
  \/ GetBacklightBrightness

\* ------------------------------------------------------------------------
\* GyroMPU6050

MPU6050_REG_CONFIG == 26
MPU6050_REG_ACCEL_XOUT_H == 59
MPU6050_REG_TEMP_OUT_H == 65
MPU6050_REG_PWR_MGMT_1 == 107
MPU6050_REG_WHO_AM_I == 117
windowSize == 16

\* what Wire.read() gives for the WHO_AM_I register: nothing (-1), a device
\* that is not an MPU-6050, and the MPU-6050 at either of its addresses
WhoAmIReads == {-1, 0, 104, 105}

\* each accelerometer axis reads -1 g, 0 or +1 g, the Z axis never 0
AccelSamples == {-16384, 0, 16384}
AccelZSamples == {-16384, 16384}

\* raw temperature reads: 0.03, 36.53 and 46.53 degrees C
TempSamples == {-12410, 0, 3400}

\* a transaction that writes the register address reg and then data (-1: no data)
WireWrite(reg, data) == [op |-> "write", reg |-> reg, n |-> data]

\* a transaction that reads n bytes from the register address reg
WireRead(reg, n) == [op |-> "read", reg |-> reg, n |-> n]

\* (Wire.read() >> 1) & 0x3F
DeviceId(read) == IF read = -1 THEN 63 ELSE (read \div 2) % 64

\* atan(-1 * num / sqrt(pow(a, 2) + pow(b, 2))) * 180.0 / PI in hundredths of
\* a degree, for num, a and b among AccelSamples, a and b not both 0
AtanDegrees(num, a, b) ==
  LET magnitude == IF num = 0 THEN 0
                   ELSE IF a # 0 /\ b # 0 THEN 3526
                   ELSE 4500
  IN IF num > 0 THEN -magnitude ELSE magnitude

RECURSIVE Repeat(_, _)
\* the sequence s, n times over
Repeat(s, n) == IF n = 0 THEN <<>> ELSE s \o Repeat(s, n - 1)

GyroInit ==
  /\ _isPresent = FALSE
  /\ wire = <<>>
  /\ gop = "none"
  /\ gret = [pitchAngle |-> 0, rollAngle |-> 0, temperature |-> 0,
             isPresent |-> FALSE]

\* startup() when the read of WHO_AM_I gives read
GyroMPU6050_startup(read) ==
  /\ gop' = "startup"
  /\ _isPresent' = (DeviceId(read) = 52)
  /\ wire' = <<WireWrite(MPU6050_REG_WHO_AM_I, -1), WireRead(MPU6050_REG_WHO_AM_I, 1)>>
              \o IF _isPresent'
                   THEN <<WireWrite(MPU6050_REG_PWR_MGMT_1, 0),
                          WireWrite(MPU6050_REG_CONFIG, 6)>>
                   ELSE <<>>
  /\ UNCHANGED gret

GyroMPU6050_shutdown ==
  /\ gop' = "shutdown"
  /\ wire' = <<>>
  /\ UNCHANGED <<_isPresent, gret>>

\* mutant: the accelerometer is read whether or not the device was detected
GyroMPU6050_getCurrentAngles_NoPresenceCheck(AcX, AcY, AcZ) ==
  /\ gop' = "getCurrentAngles"
  /\ wire' = Repeat(<<WireWrite(MPU6050_REG_ACCEL_XOUT_H, -1),
                       WireRead(MPU6050_REG_ACCEL_XOUT_H, 6)>>, windowSize)
  /\ gret' = [gret EXCEPT
                !.pitchAngle = CDiv(windowSize * AtanDegrees(AcX, AcY, AcZ), windowSize),
                !.rollAngle = CDiv(windowSize * AtanDegrees(AcY, AcX, AcZ), windowSize)]
  /\ UNCHANGED _isPresent

\* getCurrentAngles() when every read of the window gives AcX, AcY and AcZ
\* (GYRO_AXIS_SWAP is not 1)
GyroMPU6050_getCurrentAngles(AcX, AcY, AcZ) ==
  /\ gop' = "getCurrentAngles"
  /\ IF ~_isPresent
       THEN /\ wire' = <<>>
            /\ gret' = [gret EXCEPT !.pitchAngle = 0, !.rollAngle = 0]
       ELSE /\ wire' = Repeat(<<WireWrite(MPU6050_REG_ACCEL_XOUT_H, -1),
                                 WireRead(MPU6050_REG_ACCEL_XOUT_H, 6)>>, windowSize)
            /\ gret' = [gret EXCEPT
                          !.pitchAngle = CDiv(windowSize * AtanDegrees(AcX, AcY, AcZ), windowSize),
                          !.rollAngle = CDiv(windowSize * AtanDegrees(AcY, AcX, AcZ), windowSize)]
  /\ UNCHANGED _isPresent

\* getCurrentTemperature() when the temperature registers give tempValue
GyroMPU6050_getCurrentTemperature(tempValue) ==
  /\ gop' = "getCurrentTemperature"
  /\ IF ~_isPresent
       THEN /\ wire' = <<>>
            /\ gret' = [gret EXCEPT !.temperature = 0]
       ELSE /\ wire' = <<WireWrite(MPU6050_REG_TEMP_OUT_H, -1),
                          WireRead(MPU6050_REG_TEMP_OUT_H, 2)>>
            /\ gret' = [gret EXCEPT !.temperature = CDiv(tempValue * 100, 340) + 3653]
  /\ UNCHANGED _isPresent

GyroMPU6050_isPresent ==
  /\ gop' = "isPresent"
  /\ wire' = <<>>
  /\ gret' = [gret EXCEPT !.isPresent = _isPresent]
  /\ UNCHANGED _isPresent

GyroStartup ==
  /\ \E read \in WhoAmIReads : GyroMPU6050_startup(read)
  /\ UNCHANGED <<keypadVars, menuVars, backendVars, storeVars, realtimeVars>>

GyroShutdown ==
  /\ GyroMPU6050_shutdown
  /\ UNCHANGED <<keypadVars, menuVars, backendVars, storeVars, realtimeVars>>

GetCurrentAngles ==
  /\ \E AcX \in AccelSamples : \E AcY \in AccelSamples : \E AcZ \in AccelZSamples :
       GyroMPU6050_getCurrentAngles(AcX, AcY, AcZ)
  /\ UNCHANGED <<keypadVars, menuVars, backendVars, storeVars, realtimeVars>>

GetCurrentTemperature ==
  /\ \E tempValue \in TempSamples : GyroMPU6050_getCurrentTemperature(tempValue)
  /\ UNCHANGED <<keypadVars, menuVars, backendVars, storeVars, realtimeVars>>

IsPresent ==
  /\ GyroMPU6050_isPresent
  /\ UNCHANGED <<keypadVars, menuVars, backendVars, storeVars, realtimeVars>>

GyroNext ==
  \/ GyroStartup
  \/ GyroShutdown
  \/ GetCurrentAngles
  \/ GetCurrentTemperature
  \/ IsPresent

\* ------------------------------------------------------------------------
\* RealTime

\* the static members start as zero
RealTimeInit ==
  /\ micros = 0
  /\ _pausedTime = 0
  /\ _suspendStart = 0
  /\ _suspended = 0
  /\ rop = "none"
  /\ rret = -1
  /\ rprev = -1
  /\ atSuspend = 0

RealTime_suspend ==
  /\ rop' = "suspend"
  /\ _suspendStart' = IF _suspended = 0 THEN micros ELSE _suspendStart
  /\ atSuspend' = IF _suspended = 0 THEN U32(micros - _pausedTime) ELSE atSuspend
  /\ _suspended' = _suspended + 1
  /\ UNCHANGED <<micros, _pausedTime, rret, rprev>>

RealTime_resume ==
  /\ rop' = "resume"
  /\ _suspended' = _suspended - 1
  /\ _pausedTime' = IF _suspended' = 0
                      THEN U32(_pausedTime + U32(micros - _suspendStart))
                      ELSE _pausedTime
  /\ UNCHANGED <<micros, _suspendStart, rret, rprev, atSuspend>>

RealTime_currentTime ==
  /\ rop' = "currentTime"
  /\ rret' = IF _suspended # 0
               THEN LET pausedUntilNow == U32(micros - _suspendStart)
                    IN U32(micros - pausedUntilNow)
               ELSE U32(micros - _pausedTime)
  /\ rprev' = rret
  /\ UNCHANGED <<micros, _pausedTime, _suspendStart, _suspended, atSuspend>>

\* d microseconds pass
MicrosTick(d) ==
  /\ micros + d <= MaxMicros
  /\ micros' = U32(micros + d)
  /\ rop' = "tick"
  /\ UNCHANGED <<_pausedTime, _suspendStart, _suspended, rret, rprev, atSuspend>>

\* suspend() and resume() are called in balanced pairs, nested MaxNesting deep
Suspend ==
  /\ _suspended < MaxNesting
  /\ RealTime_suspend
  /\ UNCHANGED <<keypadVars, menuVars, backendVars, storeVars, gyroVars>>

Resume ==
  /\ _suspended > 0
  /\ RealTime_resume
  /\ UNCHANGED <<keypadVars, menuVars, backendVars, storeVars, gyroVars>>

CurrentTime ==
  /\ RealTime_currentTime
  /\ UNCHANGED <<keypadVars, menuVars, backendVars, storeVars, gyroVars>>

MicrosPass ==
  /\ \E d \in 1..MaxMicrosStep : MicrosTick(d)
  /\ UNCHANGED <<keypadVars, menuVars, backendVars, storeVars, gyroVars>>

RealTimeNext ==
  \/ Suspend
  \/ Resume
  \/ CurrentTime
  \/ MicrosPass

\* the specifications that never call a brightness operation take one
\* value for the indeterminate _brightness and for the stored byte
Init == KeypadInit /\ BackendInit /\ MenuInit /\ StoreInit({0}) /\ GyroInit /\ RealTimeInit

BrightnessInit ==
  KeypadInit /\ BackendInit /\ MenuInit /\ StoreInit(Levels) /\ GyroInit /\ RealTimeInit

SpecBrightness == BrightnessInit /\ [][BrightnessNext]_vars

SpecGyro == Init /\ [][GyroNext]_vars

SpecRealTime == Init /\ [][RealTimeNext]_vars

CallCurrentKey == (\E a \in AnalogSamples : currentKey(a)) /\ UNCHANGED <<other, menuVars, backendVars, storeVars, gyroVars, realtimeVars>>
CallCurrentState == (\E a \in AnalogSamples : currentState(a)) /\ UNCHANGED <<other, menuVars, backendVars, storeVars, gyroVars, realtimeVars>>
CallCurrentAnalogState == (\E a \in AnalogSamples : currentAnalogState(a)) /\ UNCHANGED <<other, menuVars, backendVars, storeVars, gyroVars, realtimeVars>>
CallKeyChanged == (\E a \in AnalogSamples : keyChanged(a)) /\ UNCHANGED <<other, menuVars, backendVars, storeVars, gyroVars, realtimeVars>>
Time == (\E d \in 1..MaxStep : Tick(d)) /\ UNCHANGED <<other, menuVars, backendVars, storeVars, gyroVars, realtimeVars>>

KeypadNext ==
  \/ CallCurrentKey
  \/ CallCurrentState
  \/ CallCurrentAnalogState
  \/ CallKeyChanged
  \/ Time

SpecBackend == Init /\ [][BackendNext]_vars

SpecKeypad == Init /\ [][KeypadNext]_vars

\* the keypad first used shortly before the millisecond counter wraps
TimeWrap ==
  /\ \E d \in 1..MaxStep : TickFrom(WrapStart, d)
  /\ UNCHANGED <<other, menuVars, backendVars, storeVars, gyroVars, realtimeVars>>

WrapInit ==
  KeypadStartedAt(WrapStart) /\ BackendInit /\ MenuInit /\ StoreInit({0}) /\ GyroInit /\ RealTimeInit

WrapNext ==
  \/ CallCurrentKey
  \/ CallCurrentState
  \/ CallCurrentAnalogState
  \/ CallKeyChanged
  \/ TimeWrap

SpecWrap == WrapInit /\ [][WrapNext]_vars

\* two KeypadDevice objects polled with the same raw reads at the same times,
\* by the same operation or one by currentKey() and the other by keyChanged()
BothCurrentKey ==
  /\ \E a \in AnalogSamples : currentKey(a) /\ other' = currentKeyOf(other, a, now)
  /\ UNCHANGED <<menuVars, backendVars, storeVars, gyroVars, realtimeVars>>

BothKeyChanged ==
  /\ \E a \in AnalogSamples : keyChanged(a) /\ other' = keyChangedOf(other, a, now)
  /\ UNCHANGED <<menuVars, backendVars, storeVars, gyroVars, realtimeVars>>

CurrentKeyAndKeyChanged ==
  /\ \E a \in AnalogSamples : currentKey(a) /\ other' = keyChangedOf(other, a, now)
  /\ UNCHANGED <<menuVars, backendVars, storeVars, gyroVars, realtimeVars>>

KeyChangedAndCurrentKey ==
  /\ \E a \in AnalogSamples : keyChanged(a) /\ other' = currentKeyOf(other, a, now)
  /\ UNCHANGED <<menuVars, backendVars, storeVars, gyroVars, realtimeVars>>

TwoRunsNext ==
  \/ BothCurrentKey
  \/ BothKeyChanged
  \/ CurrentKeyAndKeyChanged
  \/ KeyChangedAndCurrentKey
  \/ Time

SpecTwoRuns == Init /\ [][TwoRunsNext]_vars

\* the menu model and its rendering
MenuNext ==
  \/ AddItem
  \/ GetActive
  \/ SetActive
  \/ SetNextActive
  \/ UpdateDisplay

SpecMenu == Init /\ [][MenuNext]_vars

FindById ==
  /\ \E id \in ItemIds \cup AbsentIds : findById(id)
  /\ UNCHANGED <<keypadVars, _maxItems, backendVars, storeVars, gyroVars, realtimeVars>>

\* the lookup on menus that are filled and advanced
FindNext ==
  \/ AddItem
  \/ SetNextActive
  \/ FindById

SpecFind == Init /\ [][FindNext]_vars

\* the renderer, the differential writer and the display
DisplayNext ==
  \/ AddDisplayItem
  \/ SetNextActive
  \/ UpdateDisplay
  \/ SetCursor
  \/ Clear
  \/ PrintAt
  \/ PrintMenu

SpecDisplay == Init /\ [][DisplayNext]_vars

\* the labels "A", "BB", "CCC" and "DDDDDDDDD", the longest that fits the
\* scratch buffer of updateDisplay
RenderLabels == {<<65>>, <<66, 66>>, <<67, 67, 67>>, [i \in 1..9 |-> 68]}

AddRenderItem ==
  /\ \E disp \in RenderLabels : addItem(disp, Len(disp))
  /\ UNCHANGED <<keypadVars, _maxItems, backendVars, storeVars, gyroVars, realtimeVars>>

RenderInit ==
  KeypadInit /\ BackendInit /\ FullLcdMenu(MaxRenderItems) /\ StoreInit({0}) /\ GyroInit /\ RealTimeInit

\* the renderer on menus of up to MaxRenderItems items
RenderNext ==
  \/ AddRenderItem
  \/ SetNextActive
  \/ UpdateDisplay

SpecRender == RenderInit /\ [][RenderNext]_vars

\* the label "DDDDDDDDD" of the items of a long menu
LongLabels == {[i \in 1..9 |-> 68]}

AddLongItem ==
  /\ \E disp \in LongLabels : addItem(disp, Len(disp))
  /\ UNCHANGED <<keypadVars, _maxItems, backendVars, storeVars, gyroVars, realtimeVars>>

LongInit ==
  KeypadInit /\ BackendInit /\ FullLcdMenu(MaxLongItems) /\ StoreInit({0}) /\ GyroInit /\ RealTimeInit

\* the renderer on a menu whose menu string is longer than a byte counts
LongNext ==
  \/ AddLongItem
  \/ SetNextActive
  \/ UpdateDisplay

SpecLong == LongInit /\ [][LongNext]_vars

\* the labels of SpecRender and "EEEEEEEEEE", one character more than the
\* scratch buffer of updateDisplay has room for
ScratchLabels == RenderLabels \cup {[i \in 1..10 |-> 69]}

AddScratchItem ==
  /\ \E disp \in ScratchLabels : addItem(disp, Len(disp))
  /\ UNCHANGED <<keypadVars, _maxItems, backendVars, storeVars, gyroVars, realtimeVars>>

\* the renderer on menus with a label of 10 characters
ScratchNext ==
  \/ AddScratchItem
  \/ SetNextActive
  \/ UpdateDisplay

SpecScratch == Init /\ [][ScratchNext]_vars

Polls == {"currentKey", "currentState", "currentAnalogState", "keyChanged"}

\* ------------------------------------------------------------------------
\* Claims about the keypad debouncer

\* C1 Debounce stability: a poll (by any of the four polling operations)
\* whose raw read differs from the raw read of the poll before it leaves the
\* committed key as it was, whatever time has passed; so a raw key that
\* changes on every poll never changes what currentKey() returns.
C1_DebounceStability ==
  [][(kop' \in Polls /\ _currentKey' # _currentKey) => _newKey' = _newKey]_vars

\* a poll has just read a raw key other than the one before it, more than the
\* debounce period after a key was committed, and the committed key stands
C1_Witness ==
  /\ kop \in Polls
  /\ sinceRun = 0
  /\ _lastKeyChange > DEBOUNCE_PERIOD
  /\ _newKey = btnSELECT
  /\ _currentKey = btnRIGHT

\* C2 Debounce commit: at every poll made strictly more than DEBOUNCE_PERIOD
\* ms after the poll that first read the raw key K, every poll in between
\* having read K, the committed key is K, and currentKey() returns K.
C2_DebounceCommit ==
  (kop \in Polls /\ sinceRun > DEBOUNCE_PERIOD) =>
     /\ _newKey = _currentKey
     /\ (kop = "currentKey" => kret = _currentKey)

C2_Witness ==
  /\ kop = "currentKey"
  /\ sinceRun > DEBOUNCE_PERIOD
  /\ kret = btnSELECT
  /\ _lastNewKey = btnRIGHT

ShownRow(line) ==
  [i \in 1..NUM_COLUMNS |-> translateChar(IF i <= Len(line) THEN line[i] ELSE SP)]

\* C5 Render-cache invariant: after any sequence of menu operations, every
\* row of the display shows the string cached for it in _lastDisplay
\* (followed by blanks up to the width of the display).
C5_RenderCache ==
  ub = "none" => \A r \in Rows : _display.rows[r] = ShownRow(_lastDisplay[r])

\* C6 Differential write: a printMenu(line) call made with the logical cursor
\* at column 0 of a row r, line being the line of the last printMenu call on
\* row r, makes no call to the display backend and changes neither the
\* display nor the state of the menu.
C6_DifferentialWrite ==
  [][(/\ mop' = "printMenu"
      /\ _activeCol = 0
      /\ ValidRow(_activeRow)
      /\ argLine' = lastPrinted[_activeRow])
     => /\ _display'.calls = <<>>
        /\ _display'.rows = _display.rows
        /\ _display'.col = _display.col
        /\ _display'.row = _display.row
        /\ UNCHANGED <<_menuItems, _numMenuItems, _activeMenuIndex,
                       _longestDisplay, _activeRow, _activeCol, _lastDisplay, ub>>
    ]_vars

\* the second of two printMenu("A>") calls at column 0 of a row has made no
\* backend call
C6_Witness ==
  /\ mop = "printMenu"
  /\ argLine = <<65, GT>>
  /\ _activeCol = 0
  /\ ValidRow(_activeRow)
  /\ _display.calls = <<>>
  /\ _display.rows[_activeRow] = ShownRow(argLine)

\* C7 After printMenu(line), called with the logical cursor at column 0 of a
\* row r of the display and a line of at most NUM_COLUMNS characters, row r
\* shows the line followed by blanks, whatever operations came before.
C7_PrintMenuShowsLine ==
  (/\ mop = "printMenu"
   /\ ub = "none"
   /\ _activeCol = 0
   /\ ValidRow(_activeRow)
   /\ Len(argLine) <= NUM_COLUMNS)
  => _display.rows[_activeRow] = ShownRow(argLine)

\* C8 Menu-model invariant: 0 <= activeIndex < count whenever count > 0.
C8_ActiveIndexInRange ==
  _numMenuItems > 0 => (0 <= _activeMenuIndex /\ _activeMenuIndex < _numMenuItems)

\* the identifier getActive() returns when the active index is index
IdAt(index) == _menuItems[index + 1].id

\* C9 Navigation order and wraparound: setNextActive(), called with an item
\* active, makes the item added right after it active, the first item after
\* the last; and the last of N calls in a row on a menu of N items leaves
\* active the item (and so the identifier) that was active before the first.
C9_NextAndWraparound ==
  [][(/\ mop' = "setNextActive"
      /\ ub' = "none"
      /\ _activeMenuIndex < _numMenuItems)
     => /\ _activeMenuIndex' = (_activeMenuIndex + 1) % _numMenuItems
        /\ (runLen' = _numMenuItems /\ runStart' < _numMenuItems)
              => /\ _activeMenuIndex' = runStart'
                 /\ IdAt(_activeMenuIndex') = IdAt(runStart')
    ]_vars

\* two items, the second active, and two setNextActive calls in a row have
\* come back to it
C9_Witness ==
  /\ mop = "setNextActive"
  /\ _numMenuItems = 2
  /\ runLen = 2
  /\ runStart = 1
  /\ _activeMenuIndex = 1
  /\ _menuItems[1].id # _menuItems[2].id

\* C10 setActive(id) with an id that no item carries changes neither the
\* active index, nor the items, nor the display, and calls no backend.
C10_SetActiveAbsent ==
  [][(mop' = "setActive" /\ IndicesOf(argId') = {})
     => /\ _activeMenuIndex' = _activeMenuIndex
        /\ _menuItems' = _menuItems
        /\ _numMenuItems' = _numMenuItems
        /\ _display'.calls = <<>>
        /\ _display'.rows = _display.rows
    ]_vars

\* the second of two items is active after setActive with an id none carries
C10_Witness ==
  /\ mop = "setActive"
  /\ argId \in ItemIds
  /\ IndicesOf(argId) = {}
  /\ _numMenuItems = 2
  /\ _activeMenuIndex = 1

\* C11 setActive(id) with an id that an item carries makes active the first
\* item, in the order of addItem, that carries id; the active item then
\* carries id, and a getActive() call that follows returns id.
C11_SetActivePresent ==
  [][ /\ (mop' = "setActive" /\ IndicesOf(argId') # {})
         => /\ _activeMenuIndex' = First(IndicesOf(argId'))
            /\ IdAt(_activeMenuIndex') = argId'
      /\ (mop = "setActive" /\ IndicesOf(argId) # {} /\ mop' = "getActive")
         => (ub' = "none" /\ mret' = argId) ]_vars

\* setActive(2) has made the second of two items active, the only one that
\* carries 2
C11_Witness ==
  /\ mop = "setActive"
  /\ argId = 2
  /\ _numMenuItems = 2
  /\ _activeMenuIndex = 1
  /\ _menuItems[1].id = 1
  /\ _menuItems[2].id = 2

\* ------------------------------------------------------------------------
\* Claims about the renderer

\* C12 Row shape: the row updateDisplay() hands to printMenu, for every menu
\* and every active index, is NUM_COLUMNS characters long and its last
\* character is a blank.
C12_RowShape ==
  (mop \in {"updateDisplay", "setNextActive"} /\ ub = "none")
  => /\ Len(lastPrinted[0]) = NUM_COLUMNS
     /\ lastPrinted[0][NUM_COLUMNS] = SP

\* the menu string has been cut at the last usable column: the column before
\* the reserved one holds a character of a label
C12_Witness ==
  /\ mop = "updateDisplay"
  /\ ub = "none"
  /\ lastPrinted[0][NUM_COLUMNS - 1] = 68
  /\ lastPrinted[0][NUM_COLUMNS] = SP

\* the column (from 0) of the first ch in row, NUM_COLUMNS when there is none
ColumnOf(row, ch) ==
  IF \E i \in 1..Len(row) : row[i] = ch
    THEN (CHOOSE i \in 1..Len(row) : row[i] = ch /\ \A j \in 1..(i - 1) : row[j] # ch) - 1
    ELSE NUM_COLUMNS

\* the label of the active item
ActiveLabel == _menuItems[_activeMenuIndex + 1].display

\* updateDisplay() has rendered a menu with an item active
Rendered ==
  /\ mop \in {"updateDisplay", "setNextActive"}
  /\ ub = "none"
  /\ _activeMenuIndex < _numMenuItems

\* C13 Centering: when the active item has the longest label, the rendered
\* row is NUM_COLUMNS long and holds the wrapped active item >label< in the
\* middle of the NUM_COLUMNS - 1 usable columns: the numbers of usable
\* columns to its left and to its right differ by one at most.
C13_Centering ==
  (Rendered /\ Len(ActiveLabel) = _longestDisplay)
  => LET row == lastPrinted[0]
         left == ColumnOf(row, GT)
         width == Len(ActiveLabel) + 2
         right == (NUM_COLUMNS - 1) - (left + width)
     IN /\ Len(row) = NUM_COLUMNS
        /\ left + width <= NUM_COLUMNS - 1
        /\ SubSeq(row, left + 1, left + width) = <<GT>> \o ActiveLabel \o <<LT>>
        /\ left - right \in {-1, 0, 1}

\* the margin of the renderer: the column where the window puts the start
\* of the active item
Margin == (NUM_COLUMNS - 1 - _longestDisplay) \div 2

\* C14 Edge clamp: with the first item active the rendered row is Margin
\* blanks followed by the menu string from its offset 0, as far as the
\* usable columns go; the first item is rendered whole, and right after the
\* Margin blanks.
C14_EdgeClamp ==
  (Rendered /\ _activeMenuIndex = 0)
  => LET row == lastPrinted[0]
         menuString == MenuString(_menuItems, 0, _numMenuItems)
         room == NUM_COLUMNS - 1 - Margin
     IN /\ \A i \in 1..Margin : row[i] = SP
        /\ row[Margin + 1] = GT
        /\ \A j \in 1..Min(Len(menuString), room) : row[Margin + j] = menuString[j]
        /\ Len(_menuItems[1].display) + 2 <= room

\* the first of several items is active, blanks stand in front of it and the
\* menu string runs up to the last usable column
C14_Witness ==
  /\ Rendered
  /\ _activeMenuIndex = 0
  /\ _numMenuItems >= 2
  /\ lastPrinted[0][1] = SP
  /\ lastPrinted[0][NUM_COLUMNS - 1] # SP

\* C15 Selector stays in place: for every menu and every active index the
\* opening marker '>' of the active item is rendered at column Margin.
C15_SelectorInPlace ==
  Rendered => ColumnOf(lastPrinted[0], GT) = Margin

\* the row updateDisplay() renders for the menu as it is
RenderedRow == BufMenu(_menuItems, _activeMenuIndex, _numMenuItems, _longestDisplay)

\* C16 After setNextActive() every column of row 1 of the display shows a
\* blank, the row handed to printMenu was rendered for the new active index,
\* and row 0 of the display shows that row.
C16_SetNextActiveRepaints ==
  (mop = "setNextActive" /\ ub = "none")
  => /\ _display.rows[1] = ShownRow(<<>>)
     /\ lastPrinted[0] = RenderedRow
     /\ _display.rows[0] = ShownRow(RenderedRow)

\* C17 as claimed: after updateDisplay() the logical cursor of the menu is
\* at column 0 of row 0.
C17_CursorAtRow0 ==
  (mop = "updateDisplay" /\ ub = "none") => (_activeCol = 0 /\ _activeRow = 0)

\* C17 amended: after updateDisplay() the logical cursor of the menu is at
\* column 0 of row 1, the row under the menu.
C17_CursorAtRow1 ==
  (mop = "updateDisplay" /\ ub = "none") => (_activeCol = 0 /\ _activeRow = 1)

\* updateDisplay() has printed the row of a menu of one item and left the
\* logical cursor on row 1
C17_Witness ==
  /\ mop = "updateDisplay"
  /\ ub = "none"
  /\ _numMenuItems = 1
  /\ _display.calls # <<>>
  /\ _activeRow = 1
  /\ _activeCol = 0

\* ------------------------------------------------------------------------
\* Claims about the display and keypad backends

\* the eight reserved characters @ ' < > ^ ~ ` & and the symbol of each
ReservedSymbol ==
  (64 :> SYMBOL_DEGREES) @@ (39 :> SYMBOL_MINUTES) @@ (LT :> SYMBOL_LEFT_ARROW)
    @@ (GT :> SYMBOL_RIGHT_ARROW) @@ (94 :> SYMBOL_UP_ARROW)
    @@ (126 :> SYMBOL_DOWN_ARROW) @@ (96 :> SYMBOL_NO_TRACKING)
    @@ (38 :> SYMBOL_TRACKING)

\* C18 Symbol substitution: printChar of an HD44780 backend writes the
\* symbol of a reserved character and any other character as it is;
\* printChar of the SSD1306 backend draws a glyph other than the literal
\* character of its text font for exactly the reserved characters.
C18_SymbolSubstitution ==
  /\ fn = "HD44780.printChar"
       => fout.code = (IF fin[1] \in DOMAIN ReservedSymbol THEN ReservedSymbol[fin[1]]
                       ELSE fin[1])
  /\ fn = "SSD1306.printChar"
       => ((fin[1] \in DOMAIN ReservedSymbol) <=> fout # [font |-> "7x14", code |-> fin[1]])

\* the keys whose condition is true in the read in of the backend f (the
\* joystick reads x, y and the push button, 1 when pushed)
Asserted(f, in) ==
  IF f = "MCP23008_MCP23017.readKeypadState"
    THEN {k \in {btnUP, btnDOWN, btnLEFT, btnRIGHT, btnSELECT} :
            \/ k = btnUP /\ And(in[1], BUTTON_UP)
            \/ k = btnDOWN /\ And(in[1], BUTTON_DOWN)
            \/ k = btnLEFT /\ And(in[1], BUTTON_LEFT)
            \/ k = btnRIGHT /\ And(in[1], BUTTON_RIGHT)
            \/ k = btnSELECT /\ And(in[1], BUTTON_SELECT)}
    ELSE {k \in {btnUP, btnDOWN, btnLEFT, btnRIGHT, btnSELECT} :
            \/ k = btnRIGHT /\ in[1] > MIDSCALE + DEADBAND
            \/ k = btnLEFT /\ in[1] < MIDSCALE - DEADBAND
            \/ k = btnUP /\ in[2] > MIDSCALE + DEADBAND
            \/ k = btnDOWN /\ in[2] < MIDSCALE - DEADBAND
            \/ k = btnSELECT /\ in[3] = 1}

\* the key of S ranked highest by rank
Highest(S, rank) == CHOOSE k \in S : \A j \in S : rank[j] <= rank[k]

\* the order UP < DOWN < LEFT < RIGHT < SELECT
DocumentedRank ==
  (btnUP :> 1) @@ (btnDOWN :> 2) @@ (btnLEFT :> 3) @@ (btnRIGHT :> 4) @@ (btnSELECT :> 5)

\* the order of the joystick: the left/right axis, the up/down axis, the push
JoystickRank ==
  (btnRIGHT :> 1) @@ (btnLEFT :> 2) @@ (btnUP :> 3) @@ (btnDOWN :> 4) @@ (btnSELECT :> 5)

KeypadReads == {"MCP23008_MCP23017.readKeypadState", "MiniJoystick.readKeypadState"}

\* C19 as claimed: on the port-expander and the joystick keypad,
\* readKeypadState returns, of the conditions that are true at once, the one
\* ranked highest in the order UP < DOWN < LEFT < RIGHT < SELECT.
C19_DocumentedPrecedence ==
  (fn \in KeypadReads /\ Asserted(fn, fin) # {})
  => fout.key = Highest(Asserted(fn, fin), DocumentedRank)

\* C19 amended: the port-expander keypad returns the condition ranked
\* highest in the order UP < DOWN < LEFT < RIGHT < SELECT, the joystick the
\* one ranked highest in the order RIGHT < LEFT < UP < DOWN < SELECT.
C19_BackendPrecedence ==
  (fn \in KeypadReads /\ Asserted(fn, fin) # {})
  => fout.key = Highest(Asserted(fn, fin),
                        IF fn = "MiniJoystick.readKeypadState" THEN JoystickRank
                        ELSE DocumentedRank)

\* the joystick, pushed to the right and up at once, has read as UP
C19_Witness ==
  /\ fn = "MiniJoystick.readKeypadState"
  /\ Asserted(fn, fin) = {btnRIGHT, btnUP}
  /\ fout.key = btnUP

\* C20 Resistor-ladder quantization: readKeypadState of the keypad shield
\* maps every analog sample to one key: RIGHT below 50, UP for 50..239, DOWN
\* for 240..399, LEFT for 400..599, SELECT for 600..919, NONE otherwise; and
\* it returns the sample unchanged.
C20_Quantization ==
  fn = "LcdKeypadShield.readKeypadState"
  => LET a == fin[1]
     IN /\ fout.analog = a
        /\ fout.key \in KeypadState
        /\ fout.key = btnRIGHT <=> a \in 0..49
        /\ fout.key = btnUP <=> a \in 50..239
        /\ fout.key = btnDOWN <=> a \in 240..399
        /\ fout.key = btnLEFT <=> a \in 400..599
        /\ fout.key = btnSELECT <=> a \in 600..919
        /\ fout.key = btnNONE <=> a >= 920

\* the largest sample of the SELECT band has read as SELECT
C20_Witness ==
  /\ fn = "LcdKeypadShield.readKeypadState"
  /\ fin = <<919>>
  /\ fout = [key |-> btnSELECT, analog |-> 919]

\* ------------------------------------------------------------------------
\* Further claims about the menu

\* C21 Capacity: the number of stored items never exceeds the capacity given
\* at construction, and no addItem call writes past the end of the item
\* array.
C21_Capacity ==
  /\ _numMenuItems <= _maxItems
  /\ ub # "menuItems"

\* ------------------------------------------------------------------------
\* updateDisplay on a backend of another width

\* char bufMenu[17]
BufMenuSize == 17

\* the widths of the backends updateDisplay is built for: half a row, the
\* 1602 format, the 2004 format and a 40 column display
Widths == {8, 16, 20, 40}

\* the characters updateDisplay stores in bufMenu, the terminator left out,
\* on a backend with NUM_COLUMNS = columns
BufMenuOn(columns, items, active, n, longest) ==
  LET menuString == MenuString(items, active, n)
      usableColumns == columns - 1
      margin == CDiv(usableColumns - longest, 2)
      offsetIntoString == OffsetToActive(items, active, n) - margin
      front == IF offsetIntoString < 0 THEN -offsetIntoString ELSE 0
      start == IF offsetIntoString < 0 THEN 0 ELSE offsetIntoString
      ncopy == Max(0, Min(usableColumns - front, Len(menuString) - start))
  IN Blanks(front) \o SubSeq(menuString, start + 1, start + ncopy)
       \o Blanks(Max(0, columns - front - ncopy))

\* _longestDisplay after the items were added
LongestOf(items) ==
  Byte(CHOOSE m \in {Len(items[i].display) : i \in DOMAIN items} :
         \A i \in DOMAIN items : Len(items[i].display) <= m)

\* updateDisplay() of a menu of the given items on a backend of the given
\* width: the row built, the number of elements of bufMenu stored into (the
\* row and its terminator), and a store past the end of bufMenu
UpdateDisplayOn ==
  /\ ub = "none"
  /\ \E columns \in Widths : \E n \in 1..MaxGeometryItems :
       \E labels \in [1..n -> RenderLabels] : \E active \in 0..(n - 1) :
         LET items == [i \in 1..n |-> [display |-> labels[i], id |-> i]]
             row == BufMenuOn(columns, items, active, n, LongestOf(items))
         IN /\ BackendCall("updateDisplay",
                           <<columns, active>> \o [i \in 1..n |-> Len(labels[i])],
                           [row |-> row, written |-> Len(row) + 1])
            /\ ub' = IF Len(row) + 1 > BufMenuSize THEN "bufMenu" ELSE ub
  /\ UNCHANGED <<keypadVars, _maxItems, _menuItems, _numMenuItems,
                 _activeMenuIndex, _longestDisplay, _activeRow, _activeCol,
                 _lastDisplay, _display, mop, argLine, argId, mret,
                 lastPrinted, runLen, runStart, storeVars, gyroVars, realtimeVars>>

GeometryNext == UpdateDisplayOn

SpecGeometry == Init /\ [][GeometryNext]_vars

\* C22 Geometry independence: for any backend width updateDisplay builds
\* a row of exactly NUM_COLUMNS characters and stores nothing outside its
\* row buffer.
C22_GeometryIndependence ==
  fn = "updateDisplay" =>
    /\ Len(fout.row) = fin[1]
    /\ fout.written <= BufMenuSize
    /\ ub # "bufMenu"

\* C28 findById(id) returns the first item in insertion order whose
\* identifier is id, and NULL when no item carries id; it changes neither
\* the item list, nor the active index, nor the display.
C28_FindById ==
  [][mop' = "findById" =>
       /\ mret' = -1 <=> (\A i \in 1..Len(_menuItems) : _menuItems[i].id # argId')
       /\ mret' # -1 =>
            /\ mret' \in 0..(_numMenuItems - 1)
            /\ _menuItems[mret' + 1].id = argId'
            /\ \A i \in 1..mret' : _menuItems[i].id # argId'
       /\ UNCHANGED <<_menuItems, _numMenuItems, _activeMenuIndex, _lastDisplay>>
       /\ _display'.rows = _display.rows
       /\ _display'.calls = <<>>
    ]_vars

\* of two items that carry the identifier 2, findById(2) has returned the
\* first while the second is the active one
C28_Witness ==
  /\ mop = "findById"
  /\ argId = 2
  /\ _numMenuItems = 2
  /\ _menuItems[1].id = 2
  /\ _menuItems[2].id = 2
  /\ _activeMenuIndex = 1
  /\ mret = 0

\* ------------------------------------------------------------------------
\* Further claims about the keypad

\* C23 Key values: from construction on, every value currentKey() returns
\* and every value keyChanged() stores through its parameter is one of the
\* six KeypadState values.
C23_KeypadStateValues ==
  /\ (kop = "currentKey" => kret \in KeypadState)
  /\ ((kop = "keyChanged" /\ kchg) => pNewKey \in KeypadState)

\* C24 Out parameter: a keyChanged(pNewKey) call that returns false leaves
\* *pNewKey as it was, and a call that returns true stores the committed
\* key in it.
C24_OutParameter ==
  [][kop' = "keyChanged" =>
       IF kchg' THEN pNewKey' = _newKey' ELSE pNewKey' = pNewKey]_vars

\* keyChanged has returned true and stored the committed SELECT while the
\* raw key of its poll was RIGHT
C24_Witness ==
  /\ kop = "keyChanged"
  /\ kchg
  /\ pNewKey = btnSELECT
  /\ _newKey = btnSELECT
  /\ _currentKey = btnRIGHT

\* C25 The memory of keyChanged does not reach the level-triggered key: of
\* two runs with the same raw reads at the same times, in which some polls
\* are made by keyChanged() in one run and by currentKey() in the other,
\* the committed keys are the same, and so is what currentKey() returns
\* wherever both runs call it.
C25_MemoryIndependence ==
  /\ _newKey = other._newKey
  /\ (kop = "currentKey" /\ other.op = "currentKey") => kret = other.ret

\* both runs have just called currentKey() and got SELECT, the first having
\* reported SELECT through keyChanged() and the second never having called it
C25_Witness ==
  /\ kop = "currentKey"
  /\ other.op = "currentKey"
  /\ kret = btnSELECT
  /\ other.ret = btnSELECT
  /\ _lastNewKey = btnSELECT
  /\ other._lastNewKey = Byte(-2)

\* ------------------------------------------------------------------------
\* Claims about the brightness and the gyro

\* C26 Brightness persistence: startup() reads the stored brightness once
\* and writes nothing to the storage; setBacklightBrightness(level, persist)
\* writes the storage exactly when persist is true, and then the level just
\* set; so the stored value is always that of the most recent persist =
\* true call (or what the storage held at first), and
\* getBacklightBrightness() returns the level of the most recent call.
C26_BrightnessPersistence ==
  [][ /\ bop' = "startup" =>
           /\ eepromLog' = <<[op |-> "read", value |-> eeprom]>>
           /\ eeprom' = eeprom
      /\ bop' = "setBacklightBrightness" =>
           /\ eepromLog' = IF barg'.persist
                              THEN <<[op |-> "write", value |-> barg'.level]>>
                              ELSE <<>>
           /\ eeprom' = IF barg'.persist THEN barg'.level ELSE eeprom
      /\ eeprom' = lastPersisted'
      /\ (bop' = "getBacklightBrightness" /\ lastLevel' # -1) => bret' = lastLevel'
    ]_vars

\* 255 was set and stored, then 100 was set with persist = false:
\* getBacklightBrightness() returns 100 and the storage holds 255
C26_Witness ==
  /\ bop = "getBacklightBrightness"
  /\ bret = 100
  /\ barg = [level |-> 100, persist |-> FALSE]
  /\ eeprom = 255
  /\ lastPersisted = 255

\* C27 Gyro fail-soft: while the MPU-6050 is not detected (startup() failed
\* or has not run) getCurrentAngles() returns {0, 0} and
\* getCurrentTemperature() returns 0 with no I2C transaction; a startup()
\* whose WHO_AM_I check fails writes neither the wake-up nor the
\* configuration register; and only startup() changes what isPresent()
\* returns.
C27_GyroFailSoft ==
  [][ /\ (gop' = "getCurrentAngles" /\ ~_isPresent) =>
           /\ gret'.pitchAngle = 0
           /\ gret'.rollAngle = 0
           /\ wire' = <<>>
      /\ (gop' = "getCurrentTemperature" /\ ~_isPresent) =>
           /\ gret'.temperature = 0
           /\ wire' = <<>>
      /\ (gop' = "startup" /\ ~_isPresent') =>
           \A i \in DOMAIN wire' :
              wire'[i].op = "write" => wire'[i].reg = MPU6050_REG_WHO_AM_I
      /\ _isPresent' # _isPresent => gop' = "startup"
    ]_vars

\* the device was read at 46.53 degrees C, a later startup() did not detect
\* it, and getCurrentAngles() has returned {0, 0} without a transaction
C27_Witness ==
  /\ gop = "getCurrentAngles"
  /\ ~_isPresent
  /\ wire = <<>>
  /\ gret.pitchAngle = 0
  /\ gret.rollAngle = 0
  /\ gret.temperature = 4653

\* ------------------------------------------------------------------------
\* Further claims about the debouncer and the keypad backends

\* C29 The committed key changes only on a poll whose raw read equals the
\* raw read of the poll before it and at which more than DEBOUNCE_PERIOD ms
\* have passed since the raw key last changed, and then it becomes that
\* raw key; a poll whose raw read differs from the one before, or at which
\* DEBOUNCE_PERIOD ms or less have passed, leaves the committed key as it
\* was.
C29_CommitOnlyWhenSustained ==
  [][ /\ _newKey' # _newKey =>
           /\ kop' \in Polls
           /\ _currentKey' = _currentKey
           /\ sinceRun' > DEBOUNCE_PERIOD
           /\ _newKey' = _currentKey'
      /\ (kop' \in Polls /\ (_currentKey' # _currentKey \/ sinceRun' <= DEBOUNCE_PERIOD))
           => _newKey' = _newKey
    ]_vars

\* RIGHT is committed and a poll has read SELECT exactly DEBOUNCE_PERIOD ms
\* after the poll that first read it: RIGHT stands
C29_Witness ==
  /\ kop \in Polls
  /\ sinceRun = DEBOUNCE_PERIOD
  /\ _currentKey = btnSELECT
  /\ _lastKey = btnSELECT
  /\ _newKey = btnRIGHT

\* C30 SELECT precedence: on the port-expander and the joystick keypad,
\* readKeypadState returns SELECT whenever SELECT (the push button) is
\* asserted, whatever directions are asserted with it, and it returns NONE
\* exactly when no condition is asserted.
C30_SelectPrecedence ==
  fn \in KeypadReads =>
    /\ btnSELECT \in Asserted(fn, fin) => fout.key = btnSELECT
    /\ fout.key = btnNONE <=> Asserted(fn, fin) = {}

\* the port expander, all five buttons pressed at once, has read as SELECT
C30_Witness ==
  /\ fn = "MCP23008_MCP23017.readKeypadState"
  /\ Asserted(fn, fin) = {btnUP, btnDOWN, btnLEFT, btnRIGHT, btnSELECT}
  /\ fout.key = btnSELECT

\* ------------------------------------------------------------------------
\* Claims about re-rendering, printMenu and printAt

\* C31 Every operation that changes the active index (setActive with an id
\* that an item carries, setNextActive) re-renders the menu: when it returns,
\* row 0 of the display shows the row rendered for the new active item.
C31_ReRenderOnIndexChange ==
  [][ ( /\ ub' = "none"
        /\ mop' \in {"setActive", "setNextActive"}
        /\ _activeMenuIndex' # _activeMenuIndex )
      => _display'.rows[0] = ShownRow(RenderedRow') ]_vars

\* the number of glyphs the last menu operation sent to the display
GlyphsEmitted ==
  Cardinality({i \in DOMAIN _display.calls : _display.calls[i].f = "printChar"})

\* C32 printMenu never writes a glyph beyond the last column of its row:
\* started at the logical column c it emits at most NUM_COLUMNS - c glyphs,
\* the line and its blank padding together.
C32_PrintMenuWithinRow ==
  (mop = "printMenu" /\ ub = "none") => GlyphsEmitted <= NUM_COLUMNS - _activeCol

\* C33 printAt(col, row, ch) is unconditional: every call makes exactly one
\* setCursor(col, row) and then one printChar(ch) on the display, whatever
\* the row cache holds, and it changes neither the logical cursor of the
\* menu, nor the cached rows, nor the active index.
C33_PrintAtUnconditional ==
  [][ (mop' = "printAt" /\ ub' = "none") =>
        /\ _display'.calls =
             <<[f |-> "setCursor", col |-> argLine'[1], row |-> argLine'[2], ch |-> 0],
               [f |-> "printChar", col |-> 0, row |-> 0, ch |-> argLine'[3]]>>
        /\ UNCHANGED <<_activeRow, _activeCol, _lastDisplay, _activeMenuIndex>>
    ]_vars

\* the empty line was printed on row 1 and is what the cache holds for it;
\* printAt(0, 1, '&') has put the tracking glyph on that row
C33_Witness ==
  /\ mop = "printAt"
  /\ argLine = <<0, 1, 38>>
  /\ lastPrinted[1] = <<>>
  /\ _lastDisplay[1] = <<>>
  /\ _display.rows[1][1] = SYMBOL_TRACKING
  /\ Len(_display.calls) = 2

\* C34 printMenu reads and writes _lastDisplay[r] only with r a row of the
\* display, in every reachable state: also when it is called right after
\* the construction and after a setCursor with any row.
C34_CacheIndexInRange ==
  mop = "printMenu" => ub # "lastDisplay"

\* ------------------------------------------------------------------------
\* Claims about the window and the scratch buffer of updateDisplay

\* C35 For every menu whose labels are at most 9 characters long and every
\* active index, the rendered row holds the whole wrapped active item
\* >label< within the usable columns 0..NUM_COLUMNS - 2.
C35_ActiveItemWhole ==
  (Rendered /\ \A i \in 1..Len(_menuItems) : Len(_menuItems[i].display) <= 9)
  => LET row == lastPrinted[0]
         left == ColumnOf(row, GT)
         width == Len(ActiveLabel) + 2
     IN /\ left + width <= NUM_COLUMNS - 1
        /\ SubSeq(row, left + 1, left + width) = <<GT>> \o ActiveLabel \o <<LT>>

\* C36 updateDisplay() never writes outside its scratch buffer of 12 bytes:
\* for every label addItem accepts, the marker, the label, the marker and
\* the terminator fit in scratchBuffer.
C36_ScratchBufferFits ==
  ub # "scratchBuffer"

\* ------------------------------------------------------------------------
\* Claims about the clocks

\* C37 The elapsed-time test of the debouncer is right across the wrap of
\* the millisecond counter: on a poll that reads the raw key of the poll
\* before it, the counter having wrapped since the raw key last changed, the
\* raw key is committed if and only if more than DEBOUNCE_PERIOD ms have
\* really passed since that change.
C37_ElapsedAcrossWrap ==
  [][ (kop' \in Polls /\ _currentKey' = _lastKey /\ now < _lastKeyChange) =>
        /\ sinceRun' > DEBOUNCE_PERIOD => _newKey' = _currentKey'
        /\ sinceRun' <= DEBOUNCE_PERIOD => _newKey' = _newKey
    ]_vars

\* SELECT was first read within DEBOUNCE_PERIOD ms before the wrap and has
\* been committed by a poll after the wrap
C37_Witness ==
  /\ kop \in Polls
  /\ now < _lastKeyChange
  /\ U32(0 - _lastKeyChange) <= DEBOUNCE_PERIOD
  /\ sinceRun > DEBOUNCE_PERIOD
  /\ _currentKey = btnSELECT
  /\ _newKey = btnSELECT

\* C38 RealTime::currentTime() never decreases: over balanced suspend() and
\* resume() calls and the passage of time, each result is greater than or
\* equal to the one before.
C38_CurrentTimeMonotone ==
  (rop = "currentTime" /\ rprev # -1) => rret >= rprev

\* C39 RealTime freezes while suspended: between the outermost suspend()
\* and its resume(), currentTime() returns the value it had at that
\* suspend(), the real time less all time paused before, whatever nested
\* pairs are called; and after the outermost resume() it goes on from that
\* value.
C39_FrozenWhileSuspended ==
  /\ (rop = "currentTime" /\ _suspended > 0) => rret = atSuspend
  /\ (rop = "resume" /\ _suspended = 0) => U32(micros - _pausedTime) = atSuspend

====
